---- MODULE Spec2Model ----
(***************************************************************************)
(* Model of bin/index.js of springjs: the version parser (parseVersion),   *)
(* the version ordering (compareVersions), the range predicate             *)
(* (checkRange) and the interactive selection flow (promptUser,            *)
(* flattenDependencies, promptForDependencies).                            *)
(*                                                                         *)
(* A JavaScript string is a sequence of one-character strings, so that     *)
(* split, trim, startsWith, slice and the digit test are computed on the   *)
(* characters.  null and undefined are the two values Null and Undefined,  *)
(* which are no strings.  A call completes normally with a value or        *)
(* abruptly with an exception: [type, value].                              *)
(***************************************************************************)
EXTENDS Integers, Sequences, FiniteSets, TLC

VARIABLES pc, args, ret, metadata, answers, allDependencies, choices

vars == <<pc, args, ret, metadata, answers, allDependencies, choices>>

----------------------------------------------------------------------------
(* JavaScript values *)

Null == <<"null">>

Undefined == <<"undefined">>

Nullish == {Null, Undefined}

Normal(v) == [type |-> "normal", value |-> v]

Throw(e) == [type |-> "throw", value |-> e]

TypeError == Throw("TypeError")

----------------------------------------------------------------------------
(* String primitives of the runtime, on sequences of characters *)

Digits == <<"0", "1", "2", "3", "4", "5", "6", "7", "8", "9">>

DigitChars == {Digits[i] : i \in 1..Len(Digits)}

DigitValues == [ch \in DigitChars |-> (CHOOSE i \in 1..Len(Digits) : Digits[i] = ch) - 1]

IsDigit(ch) == ch \in DigitChars

DigitVal(ch) == DigitValues[ch]

\* /^\d+$/.test(part)
IsNumeric(part) == Len(part) > 0 /\ \A i \in 1..Len(part) : IsDigit(part[i])

\* parseInt(part, 10) on a string of decimal digits
RECURSIVE parseInt(_)
parseInt(part) ==
    IF part = <<>> THEN 0
    ELSE 10 * parseInt(SubSeq(part, 1, Len(part) - 1)) + DigitVal(part[Len(part)])

\* String.prototype.split with a separator matching one character of seps
RECURSIVE SplitFrom(_, _, _, _, _)
SplitFrom(s, seps, i, cur, acc) ==
    IF i > Len(s) THEN Append(acc, cur)
    ELSE IF s[i] \in seps THEN SplitFrom(s, seps, i + 1, <<>>, Append(acc, cur))
    ELSE SplitFrom(s, seps, i + 1, Append(cur, s[i]), acc)

split(s, seps) == SplitFrom(s, seps, 1, <<>>, <<>>)

startsWith(s, p) == Len(s) >= Len(p) /\ SubSeq(s, 1, Len(p)) = p

endsWith(s, p) == Len(s) >= Len(p) /\ SubSeq(s, Len(s) - Len(p) + 1, Len(s)) = p

includes(s, p) ==
    \E i \in 1..(Len(s) - Len(p) + 1) : SubSeq(s, i, i + Len(p) - 1) = p

RECURSIVE trimStart(_)
trimStart(s) ==
    IF s # <<>> /\ Head(s) = " " THEN trimStart(Tail(s)) ELSE s

RECURSIVE trimEnd(_)
trimEnd(s) ==
    IF s # <<>> /\ s[Len(s)] = " " THEN trimEnd(SubSeq(s, 1, Len(s) - 1)) ELSE s

trim(s) == trimEnd(trimStart(s))

\* s.slice(1)
sliceFrom1(s) == SubSeq(s, 2, Len(s))

\* s.slice(0, -1)
sliceToLast(s) == SubSeq(s, 1, Len(s) - 1)

LowerLetters ==
    <<"a", "b", "c", "d", "e", "f", "g", "h", "i", "j", "k", "l", "m",
      "n", "o", "p", "q", "r", "s", "t", "u", "v", "w", "x", "y", "z">>

UpperLetters ==
    <<"A", "B", "C", "D", "E", "F", "G", "H", "I", "J", "K", "L", "M",
      "N", "O", "P", "Q", "R", "S", "T", "U", "V", "W", "X", "Y", "Z">>

UpperChars == {UpperLetters[i] : i \in 1..Len(UpperLetters)}

LowerOf ==
    [ch \in UpperChars |->
        LowerLetters[CHOOSE i \in 1..Len(UpperLetters) : UpperLetters[i] = ch]]

IsUpper(ch) == ch \in UpperChars

toLowerChar(ch) == IF IsUpper(ch) THEN LowerOf[ch] ELSE ch

\* String.prototype.toLowerCase
toLowerCase(s) == [i \in 1..Len(s) |-> toLowerChar(s[i])]

\* Collation of the characters used, in the order of the root collation that
\* localeCompare applies: white space, punctuation, digits, letters; the two
\* cases of a letter have the same primary weight, lower case first.
CollationOrder ==
    <<" ", "-", ",", ";", ".", "(", ")", "[", "]">> \o Digits \o LowerLetters

CollationWeights ==
    [ch \in {CollationOrder[i] : i \in 1..Len(CollationOrder)} |->
        CHOOSE i \in 1..Len(CollationOrder) : CollationOrder[i] = ch]

PrimaryWeight(ch) == CollationWeights[toLowerChar(ch)]

CaseWeight(ch) == IF IsUpper(ch) THEN 1 ELSE 0

\* -1, 0 or 1: the order of two sequences of weights, the first difference
\* deciding and a proper prefix coming first
RECURSIVE CompareKeys(_, _)
CompareKeys(k1, k2) ==
    IF k1 = <<>> /\ k2 = <<>> THEN 0
    ELSE IF k1 = <<>> THEN -1
    ELSE IF k2 = <<>> THEN 1
    ELSE IF Head(k1) < Head(k2) THEN -1
    ELSE IF Head(k1) > Head(k2) THEN 1
    ELSE CompareKeys(Tail(k1), Tail(k2))

\* String.prototype.localeCompare: the primary weights of the whole strings
\* are compared first, the case of the letters only when they are equal
localeCompare(s, t) ==
    LET p == CompareKeys([i \in 1..Len(s) |-> PrimaryWeight(s[i])],
                         [i \in 1..Len(t) |-> PrimaryWeight(t[i])])
    IN  IF p # 0 THEN p
        ELSE CompareKeys([i \in 1..Len(s) |-> CaseWeight(s[i])],
                         [i \in 1..Len(t) |-> CaseWeight(t[i])])

----------------------------------------------------------------------------
(* parseVersion, index.js 27-44 *)

\* the number of leading parts that pass the digit test: the loop of lines
\* 32-39 pushes them and breaks at the first part that fails it
RECURSIVE NumericRun(_)
NumericRun(parts) ==
    IF parts # <<>> /\ IsNumeric(Head(parts)) THEN 1 + NumericRun(Tail(parts)) ELSE 0

\* parseVersion without the break of line 37: the loop goes on after the
\* first part that is not numeric
parseVersionNoBreak(version) ==
    IF version \in Nullish THEN TypeError
    ELSE
        LET parts == split(version, {"-", "."})
            IsOther(part) == ~IsNumeric(part)
            numerics == SelectSeq(parts, IsNumeric)
            others == SelectSeq(parts, IsOther)
            num(i) == IF i <= Len(numerics) THEN parseInt(numerics[i]) ELSE 0
        IN  Normal([major |-> num(1), minor |-> num(2), patch |-> num(3),
                    qualifier |-> IF others = <<>> THEN <<>> ELSE others[Len(others)]])

parseVersion(version) ==
    IF version \in Nullish THEN TypeError
    ELSE
        LET parts == split(version, {"-", "."})
            k == NumericRun(parts)
            numericParts == [i \in 1..k |-> parseInt(parts[i])]
            qualifier == IF k < Len(parts) THEN parts[k + 1] ELSE Null
            num(i) == IF i <= k THEN numericParts[i] ELSE 0
        IN  Normal([major |-> num(1), minor |-> num(2), patch |-> num(3),
                    qualifier |-> IF qualifier = Null \/ qualifier = <<>>
                                  THEN <<>> ELSE qualifier])

----------------------------------------------------------------------------
(* compareVersions, index.js 46-71 *)

RELEASE == <<"R", "E", "L", "E", "A", "S", "E">>

SNAPSHOT == <<"S", "N", "A", "P", "S", "H", "O", "T">>

\* getQualifierRank without the test of line 56
getQualifierRankNoSnapshot(q) ==
    IF q = <<>> \/ q = RELEASE THEN 4
    ELSE IF startsWith(q, <<"R", "C">>) THEN 3
    ELSE IF startsWith(q, <<"M">>) THEN 2
    ELSE 0

getQualifierRank(q) ==
    IF q = <<>> \/ q = RELEASE THEN 4
    ELSE IF startsWith(q, <<"R", "C">>) THEN 3
    ELSE IF startsWith(q, <<"M">>) THEN 2
    ELSE IF includes(q, SNAPSHOT) THEN 1
    ELSE 0

\* compareVersions with v2.minor for v2.patch in the result of line 49
compareVersionsPatchSlip(v1, v2) ==
    IF v1.major # v2.major THEN v1.major - v2.major
    ELSE IF v1.minor # v2.minor THEN v1.minor - v2.minor
    ELSE IF v1.patch # v2.patch THEN v1.patch - v2.minor
    ELSE
        LET r1 == getQualifierRank(v1.qualifier)
            r2 == getQualifierRank(v2.qualifier)
        IN  IF r1 # r2 THEN r1 - r2
            ELSE IF r1 = 4 THEN 0
            ELSE localeCompare(v1.qualifier, v2.qualifier)

\* compareVersions with line 67 before line 63: a release equals whatever it
\* is compared with
compareVersionsReleaseFirst(v1, v2) ==
    IF v1.major # v2.major THEN v1.major - v2.major
    ELSE IF v1.minor # v2.minor THEN v1.minor - v2.minor
    ELSE IF v1.patch # v2.patch THEN v1.patch - v2.patch
    ELSE
        LET r1 == getQualifierRank(v1.qualifier)
            r2 == getQualifierRank(v2.qualifier)
        IN  IF r1 = 4 THEN 0
            ELSE IF r1 # r2 THEN r1 - r2
            ELSE localeCompare(v1.qualifier, v2.qualifier)

\* compareVersions without the qualifier comparison of lines 52-70
compareVersionsNoQualifier(v1, v2) ==
    IF v1.major # v2.major THEN v1.major - v2.major
    ELSE IF v1.minor # v2.minor THEN v1.minor - v2.minor
    ELSE IF v1.patch # v2.patch THEN v1.patch - v2.patch
    ELSE 0

compareVersions(v1, v2) ==
    IF v1.major # v2.major THEN v1.major - v2.major
    ELSE IF v1.minor # v2.minor THEN v1.minor - v2.minor
    ELSE IF v1.patch # v2.patch THEN v1.patch - v2.patch
    ELSE
        LET r1 == getQualifierRank(v1.qualifier)
            r2 == getQualifierRank(v2.qualifier)
        IN  IF r1 # r2 THEN r1 - r2
            ELSE IF r1 = 4 THEN 0
            ELSE localeCompare(v1.qualifier, v2.qualifier)

----------------------------------------------------------------------------
(* checkRange, index.js 73-121 *)

\* lines 106-111 without the test of line 106: an empty lower side is parsed
\* and compared
rejectsStartNoGuard(version, start, startInclusive) ==
    LET comp == compareVersions(version, parseVersion(start).value)
    IN  \/ startInclusive /\ comp < 0
        \/ ~startInclusive /\ comp <= 0

\* lines 106-111: a lower bound that is a non-empty string may reject
rejectsStart(version, start, startInclusive) ==
    /\ start # <<>>
    /\ LET comp == compareVersions(version, parseVersion(start).value)
       IN  \/ startInclusive /\ comp < 0
           \/ ~startInclusive /\ comp <= 0

\* lines 113-118 with > for >= in line 117: the exclusive upper bound admits
\* the bound itself
rejectsEndOffByOne(version, end, endInclusive) ==
    /\ end \notin Nullish
    /\ end # <<>>
    /\ LET comp == compareVersions(version, parseVersion(end).value)
       IN  \/ endInclusive /\ comp > 0
           \/ ~endInclusive /\ comp > 0

\* lines 113-118: an upper bound that is a non-empty string may reject
rejectsEnd(version, end, endInclusive) ==
    /\ end \notin Nullish
    /\ end # <<>>
    /\ LET comp == compareVersions(version, parseVersion(end).value)
       IN  \/ endInclusive /\ comp > 0
           \/ ~endInclusive /\ comp >= 0

\* checkRange with >= 2 for === 2 in line 89: an expression with two commas is
\* an interval of its first two parts
checkRangeTwoOrMore(versionStr, rangeStr) ==
    IF rangeStr \in Nullish \/ rangeStr = <<>> THEN Normal(TRUE)
    ELSE
        LET parsed == parseVersion(versionStr)
            version == parsed.value
            rangeDetails == trim(rangeStr)
            strict == /\ startsWith(rangeDetails, <<"[">>) \/ startsWith(rangeDetails, <<"(">>)
                      /\ endsWith(rangeDetails, <<"]">>) \/ endsWith(rangeDetails, <<")">>)
            parts == split(rangeDetails, {","})
            startInclusive == IF strict THEN startsWith(rangeDetails, <<"[">>) ELSE TRUE
            endInclusive == IF strict THEN endsWith(rangeDetails, <<"]">>) ELSE FALSE
            start == IF strict THEN trim(sliceFrom1(parts[1])) ELSE rangeDetails
            end == IF strict THEN trim(sliceToLast(parts[2])) ELSE Null
        IN  IF parsed.type = "throw" THEN parsed
            ELSE IF strict /\ Len(parts) < 2 THEN Normal(TRUE)
            ELSE IF rejectsStart(version, start, startInclusive) THEN Normal(FALSE)
            ELSE IF rejectsEnd(version, end, endInclusive) THEN Normal(FALSE)
            ELSE Normal(TRUE)

\* lines 73-121
checkRange(versionStr, rangeStr) ==
    IF rangeStr \in Nullish \/ rangeStr = <<>> THEN Normal(TRUE)
    ELSE
        LET parsed == parseVersion(versionStr)
            version == parsed.value
            rangeDetails == trim(rangeStr)
            strict == /\ startsWith(rangeDetails, <<"[">>) \/ startsWith(rangeDetails, <<"(">>)
                      /\ endsWith(rangeDetails, <<"]">>) \/ endsWith(rangeDetails, <<")">>)
            parts == split(rangeDetails, {","})
            startInclusive == IF strict THEN startsWith(rangeDetails, <<"[">>) ELSE TRUE
            endInclusive == IF strict THEN endsWith(rangeDetails, <<"]">>) ELSE FALSE
            start == IF strict THEN trim(sliceFrom1(parts[1])) ELSE rangeDetails
            end == IF strict THEN trim(sliceToLast(parts[2])) ELSE Null
        IN  IF parsed.type = "throw" THEN parsed
            ELSE IF strict /\ Len(parts) # 2 THEN Normal(TRUE)
            ELSE IF rejectsStart(version, start, startInclusive) THEN Normal(FALSE)
            ELSE IF rejectsEnd(version, end, endInclusive) THEN Normal(FALSE)
            ELSE Normal(TRUE)

----------------------------------------------------------------------------
(* Inputs *)

MaxMajor == 4

MaxMinor == 1

MaxPatch == 1

MaxCmp == 1

MaxParts == 4

NumStr(n) == <<Digits[n + 1]>>

Dotted(a, b, c) == NumStr(a) \o <<".">> \o NumStr(b) \o <<".">> \o NumStr(c)

RC1 == <<"R", "C", "1">>

M1 == <<"M", "1">>

M2 == <<"M", "2">>

weird == <<"w", "e", "i", "r", "d">>

extra == <<"e", "x", "t", "r", "a">>

garbage == <<"g", "a", "r", "b", "a", "g", "e">>

\* the qualifiers of the five ranks
Qualifiers == {<<>>, RELEASE, RC1, M1, M2, SNAPSHOT, weird, extra}

\* what follows the numeric triple in a version identifier
Suffixes ==
    {<<>>, <<".">> \o RELEASE, <<"-">> \o RELEASE, <<"-">> \o RC1, <<"-">> \o M1,
     <<"-">> \o M2, <<"-">> \o SNAPSHOT, <<"-">> \o weird}

\* version arguments of checkRange: well-formed identifiers, short and
\* malformed ones, and the absent values
VersionStrings ==
    {Dotted(a, b, c) \o s : a \in 0..MaxMajor, b \in 0..MaxMinor, c \in 0..MaxPatch,
                            s \in Suffixes}
    \cup {<<>>, garbage, weird, <<"[">>, <<"3">>, <<"3", ".", "1">>}

VersionArgs == VersionStrings \cup Nullish

\* the two sides of a bracketed range expression
BoundStrings ==
    {<<>>, Dotted(3, 0, 0), Dotted(3, 1, 0), Dotted(4, 0, 0),
     Dotted(3, 0, 0) \o <<".">> \o RELEASE, Dotted(3, 0, 0) \o <<"-">> \o M1,
     Dotted(4, 0, 0) \o <<"-">> \o RC1}

Bracketed(open, lo, pad, hi, close) == open \o lo \o <<",">> \o pad \o hi \o close

BracketedRanges ==
    {Bracketed(open, lo, pad, hi, close) :
        open \in {<<"[">>, <<"(">>}, lo \in BoundStrings, pad \in {<<>>, <<" ">>},
        hi \in BoundStrings, close \in {<<"]">>, <<")">>}}

BareRanges ==
    (BoundStrings \ {<<>>}) \cup {<<" ">> \o Dotted(3, 1, 0) \o <<" ">>}

\* expressions that are neither: a wrong separator, no or two commas, a
\* bracket without its partner, a word, white space
MalformedRanges ==
    {<<"[">> \o Dotted(1, 0, 0) \o <<";", " ">> \o Dotted(2, 0, 0) \o <<"]">>,
     <<"(">> \o Dotted(3, 0, 0) \o <<")">>,
     <<"[">> \o Dotted(3, 0, 0) \o <<",">> \o Dotted(3, 1, 0) \o <<",">> \o Dotted(4, 0, 0) \o <<"]">>,
     <<"[">> \o Dotted(3, 0, 0) \o <<",", " ">> \o Dotted(4, 0, 0),
     Dotted(3, 0, 0) \o <<",", " ">> \o Dotted(4, 0, 0) \o <<")">>,
     <<"a", "b", "c">>, <<" ">>}

RangeStrings == BracketedRanges \cup BareRanges \cup MalformedRanges \cup {<<>>}

RangeArgs == RangeStrings \cup Nullish

\* the values parseVersion returns
ParsedVersions ==
    [major : 0..MaxCmp, minor : 0..1, patch : 0..1, qualifier : Qualifiers]

----------------------------------------------------------------------------
(* One call of checkRange *)

NoFlow ==
    /\ metadata = Undefined
    /\ answers = Undefined
    /\ allDependencies = <<>>
    /\ choices = <<>>

InitRange ==
    /\ pc = "call"
    /\ args \in VersionArgs \X RangeArgs
    /\ ret = Undefined
    /\ NoFlow

CallCheckRange ==
    /\ pc = "call"
    /\ ret' = checkRange(args[1], args[2])
    /\ pc' = "done"
    /\ UNCHANGED <<args, metadata, answers, allDependencies, choices>>

NextRange == CallCheckRange

SpecRange == InitRange /\ [][NextRange]_vars

----------------------------------------------------------------------------
(* The range notation, read off the expression independently of checkRange *)

IsString(x) == x \notin Nullish

CommaCount(t) == Cardinality({i \in 1..Len(t) : t[i] = ","})

Opens(t) == t # <<>> /\ t[1] \in {"[", "("}

Closes(t) == t # <<>> /\ t[Len(t)] \in {"]", ")"}

IsBracketed(t) == Opens(t) /\ Closes(t)

CommaAt(t) == CHOOSE i \in 1..Len(t) : t[i] = ","

LowerSide(t) == trim(SubSeq(t, 2, CommaAt(t) - 1))

UpperSide(t) == trim(SubSeq(t, CommaAt(t) + 1, Len(t) - 1))

\* an interval: brackets at both ends and exactly one comma
IsInterval(r) == IsBracketed(trim(r)) /\ CommaCount(trim(r)) = 1

\* brackets at both ends and no comma, or more than one
IsAmbiguous(r) == IsBracketed(trim(r)) /\ CommaCount(trim(r)) # 1

\* a bracket at one end only
IsHalfBracketed(r) == Opens(trim(r)) # Closes(trim(r))

\* no bracket pair: the whole trimmed expression is a lower bound
IsBare(r) == trim(r) # <<>> /\ ~IsBracketed(trim(r))

FirstToken(s) == Head(split(s, {"-", "."}))

\* a version string with no leading numeric token, the empty one included
IsMalformedVersion(v) == IsString(v) /\ ~IsNumeric(FirstToken(v))

Triple(p) == <<p.major, p.minor, p.patch>>

Cmp(v, b) == compareVersions(parseVersion(v).value, parseVersion(b).value)

Interval(v, r) ==
    LET t == trim(r)
    IN  /\ \/ LowerSide(t) = <<>>
           \/ IF t[1] = "[" THEN Cmp(v, LowerSide(t)) >= 0 ELSE Cmp(v, LowerSide(t)) > 0
        /\ \/ UpperSide(t) = <<>>
           \/ IF t[Len(t)] = "]" THEN Cmp(v, UpperSide(t)) <= 0 ELSE Cmp(v, UpperSide(t)) < 0

----------------------------------------------------------------------------
(* Claims on checkRange, under SpecRange *)

Done == pc = "done"

\* C2: checkRange never raises: for every version and every range expression,
\* the absent values of either argument included, the call completes normally
\* and returns a boolean.
C2_NeverRaises ==
    Done => ret.type = "normal" /\ ret.value \in BOOLEAN

\* C3 as stated: checkRange returns true whenever the version string is
\* malformed (empty, or without a leading numeric token) or the range
\* expression is a bare expression without a leading numeric token, whatever
\* the other argument is.
C3_FailOpen ==
    Done /\ IsString(args[1]) /\ IsString(args[2])
         /\ (IsMalformedVersion(args[1])
             \/ (IsBare(args[2]) /\ IsMalformedVersion(trim(args[2]))))
    => ret = Normal(TRUE)

\* C3 amended: malformed strings are given defaults, and only some of them are
\* permissive.  For every version string, malformed ones included, the result
\* is true when the range expression is empty, blank, bracketed without
\* exactly one comma, or an interval with both sides empty.  A malformed
\* version string counts as 0.0.0, so the result is false when the lower
\* bound has a numeric triple other than 0.0.0; and a bare expression without
\* a leading numeric token counts as the lower bound 0.0.0, so the result is
\* true for every version whose numeric triple is not 0.0.0.
C3_Defaults ==
    Done /\ IsString(args[1]) /\ IsString(args[2]) =>
        LET v == args[1]
            r == args[2]
            t == trim(r)
            zero == <<0, 0, 0>>
            lower == IF IsInterval(r) THEN LowerSide(t) ELSE t
        IN  /\ (t = <<>> \/ IsAmbiguous(r)
                \/ (IsInterval(r) /\ LowerSide(t) = <<>> /\ UpperSide(t) = <<>>))
               => ret = Normal(TRUE)
            /\ (/\ IsMalformedVersion(v)
                /\ IsInterval(r) \/ IsBare(r)
                /\ lower # <<>>
                /\ Triple(parseVersion(lower).value) # zero)
               => ret = Normal(FALSE)
            /\ (/\ IsBare(r)
                /\ IsMalformedVersion(t)
                /\ Triple(parseVersion(v).value) # zero)
               => ret = Normal(TRUE)

\* a malformed version string has met a lower bound above 0.0.0
C3_Witness ==
    Done /\ args[1] = garbage /\ args[2] = Dotted(3, 1, 0) /\ ret = Normal(FALSE)

\* C4 as stated: for every version string, checkRange is true when the range
\* expression has a bracket at one end only, or is bracketed with no comma or
\* with more than one.
C4_Unparseable ==
    Done /\ IsString(args[1]) /\ IsString(args[2])
         /\ (IsHalfBracketed(args[2]) \/ IsAmbiguous(args[2]))
    => ret = Normal(TRUE)

\* C4 amended: for every version string, checkRange is true when the range
\* expression is bracketed at both ends and has no comma or more than one; an
\* expression with a bracket at one end only is not treated as bracketed: it
\* is a bare inclusive lower bound, true exactly when the version compares at
\* or above the parse of the whole trimmed expression.
C4_Ambiguous ==
    Done /\ IsString(args[1]) /\ IsString(args[2]) =>
        /\ IsAmbiguous(args[2]) => ret = Normal(TRUE)
        /\ IsHalfBracketed(args[2]) => ret = Normal(Cmp(args[1], trim(args[2])) >= 0)

\* a version below every bound has met a bracketed expression with a
\* semicolon, and one with two commas
C4_Witness ==
    Done /\ args[1] = Dotted(0, 0, 0) \o <<"-">> \o weird /\ IsAmbiguous(args[2])
         /\ CommaCount(args[2]) \in {0, 2} /\ ret = Normal(TRUE)

\* C6, the general part: for every version string v and every well-formed range
\* expression r, checkRange(v, r) is the interval predicate: true when r is empty; for a bare
\* r, compare(parse(v), parse(trim(r))) >= 0; for a bracketed r with one comma,
\* the lower side is empty or v is at or above it ('[') or above it ('('), and
\* the upper side is empty or v is at or below it (']') or below it (')').
C6_IntervalPredicate ==
    Done /\ IsString(args[1]) /\ IsString(args[2]) =>
        LET v == args[1]
            r == args[2]
        IN  /\ r = <<>> => ret = Normal(TRUE)
            /\ IsBare(r) => ret = Normal(Cmp(v, trim(r)) >= 0)
            /\ IsInterval(r) => ret = Normal(Interval(v, r))

\* C6, the two instances it names: 3.0.0 is in [3.0.0, 4.0.0), 4.0.0 is not
C6_Instances ==
    Done /\ args[2] = Bracketed(<<"[">>, Dotted(3, 0, 0), <<" ">>, Dotted(4, 0, 0), <<")">>) =>
        /\ args[1] = Dotted(3, 0, 0) => ret = Normal(TRUE)
        /\ args[1] = Dotted(4, 0, 0) => ret = Normal(FALSE)

\* C6: checkRange is the interval predicate on every well-formed range
\* expression, and in particular 3.0.0 satisfies [3.0.0, 4.0.0) and 4.0.0 does
\* not.
C6_Theorem == C6_IntervalPredicate /\ C6_Instances

\* the exclusive upper bound has rejected the bound itself
C6_Witness ==
    /\ Done
    /\ args[1] = Dotted(4, 0, 0)
    /\ args[2] = Bracketed(<<"[">>, Dotted(3, 0, 0), <<" ">>, Dotted(4, 0, 0), <<")">>)
    /\ ret = Normal(FALSE)

Rank(v) == getQualifierRank(parseVersion(v).value.qualifier)

\* C10: for a range [lo, hi) with release-like lo < hi, a version with hi's
\* numeric triple and a qualifier of rank below 4 satisfies the range although
\* hi does not, and a version with lo's numeric triple and such a qualifier
\* does not satisfy it although lo does.
C10_PreReleaseShift ==
    Done /\ IsString(args[1]) /\ IsString(args[2]) /\ IsInterval(args[2]) =>
        LET v == args[1]
            r == args[2]
            t == trim(r)
            lo == LowerSide(t)
            hi == UpperSide(t)
        IN  (/\ t[1] = "[" /\ t[Len(t)] = ")"
             /\ lo # <<>> /\ hi # <<>>
             /\ Rank(lo) = 4 /\ Rank(hi) = 4
             /\ Cmp(lo, hi) < 0
             /\ Rank(v) < 4)
            => /\ Triple(parseVersion(v).value) = Triple(parseVersion(hi).value)
                  => ret = Normal(TRUE) /\ checkRange(hi, r) = Normal(FALSE)
               /\ Triple(parseVersion(v).value) = Triple(parseVersion(lo).value)
                  => ret = Normal(FALSE) /\ checkRange(lo, r) = Normal(TRUE)

\* the milestone of the excluded upper bound has been accepted
C10_Witness ==
    /\ Done
    /\ args[1] = Dotted(4, 0, 0) \o <<"-">> \o M1
    /\ args[2] = Bracketed(<<"[">>, Dotted(3, 0, 0), <<" ">>, Dotted(4, 0, 0), <<")">>)
    /\ ret = Normal(TRUE)

----------------------------------------------------------------------------
(* One call of parseVersion *)

ParseTokens == {<<>>, <<"0">>, <<"3">>, <<"1", "2">>, M2}

RECURSIVE Joined(_)
Joined(n) ==
    IF n = 1 THEN ParseTokens
    ELSE {s \o sep \o tok : s \in Joined(n - 1), sep \in {<<".">>, <<"-">>},
                            tok \in ParseTokens}

ParseExamples ==
    {Dotted(3, 0, 0) \o <<"-">> \o RC1,
     Dotted(3, 0, 0) \o <<"-">> \o M2 \o <<"-">> \o extra,
     Dotted(3, 0, 0) \o <<".">> \o RELEASE,
     Dotted(3, 0, 0) \o <<".", "B", "U", "I", "L", "D", "-">> \o SNAPSHOT}

ParseArgs == UNION {Joined(n) : n \in 1..MaxParts} \cup ParseExamples \cup Nullish

InitParse ==
    /\ pc = "call"
    /\ \E s \in ParseArgs : args = <<s>>
    /\ ret = Undefined
    /\ NoFlow

CallParseVersion ==
    /\ pc = "call"
    /\ ret' = parseVersion(args[1])
    /\ pc' = "done"
    /\ UNCHANGED <<args, metadata, answers, allDependencies, choices>>

NextParse == CallParseVersion

SpecParse == InitParse /\ [][NextParse]_vars

\* The tokens of s read off the positions of its separators
SeparatorsOf(s) == {i \in 1..Len(s) : s[i] \in {".", "-"}}

TokenCount(s) == Cardinality(SeparatorsOf(s)) + 1

\* the position of the separator before the n-th token (0 for the first) and
\* of the one after it (Len(s) + 1 for the last)
CutBefore(s, n) ==
    IF n = 1 THEN 0
    ELSE CHOOSE i \in SeparatorsOf(s) :
            Cardinality({j \in SeparatorsOf(s) : j < i}) = n - 2

CutAfter(s, n) ==
    IF n = TokenCount(s) THEN Len(s) + 1
    ELSE CHOOSE i \in SeparatorsOf(s) :
            Cardinality({j \in SeparatorsOf(s) : j < i}) = n - 1

Token(s, n) == SubSeq(s, CutBefore(s, n) + 1, CutAfter(s, n) - 1)

\* the decimal value of a string of digits
RECURSIVE Pow10(_)
Pow10(n) == IF n = 0 THEN 1 ELSE 10 * Pow10(n - 1)

RECURSIVE SumDigits(_, _)
SumDigits(tok, i) ==
    IF i > Len(tok) THEN 0
    ELSE DigitVal(tok[i]) * Pow10(Len(tok) - i) + SumDigits(tok, i + 1)

\* the number of tokens in the leading run of purely decimal tokens
LeadingRun(s) ==
    CHOOSE k \in 0..TokenCount(s) :
        /\ \A n \in 1..k : IsNumeric(Token(s, n))
        /\ k < TokenCount(s) => ~IsNumeric(Token(s, k + 1))

Component(s, n) == IF n <= LeadingRun(s) THEN SumDigits(Token(s, n), 1) ELSE 0

\* C7, the general part: parse(s) splits s on '.' and '-', gives the leading run of purely
\* decimal tokens to major, minor and patch in that order (the first three
\* only, 0 for a missing one), takes as qualifier the first token that is not
\* purely numeric ("" when there is none) and ignores every later token.
C7_Parse ==
    Done /\ IsString(args[1]) =>
        LET s == args[1]
        IN  ret = Normal([major |-> Component(s, 1), minor |-> Component(s, 2),
                          patch |-> Component(s, 3),
                          qualifier |-> IF LeadingRun(s) < TokenCount(s)
                                        THEN Token(s, LeadingRun(s) + 1) ELSE <<>>])

Version(a, b, c, q) == [major |-> a, minor |-> b, patch |-> c, qualifier |-> q]

\* C7, the instances it names
C7_Instances ==
    Done =>
        /\ args[1] = <<>> => ret = Normal(Version(0, 0, 0, <<>>))
        /\ args[1] = <<"3">> => ret = Normal(Version(3, 0, 0, <<>>))
        /\ args[1] = Dotted(3, 0, 0) \o <<"-">> \o RC1 => ret = Normal(Version(3, 0, 0, RC1))
        /\ args[1] = Dotted(3, 0, 0) \o <<"-">> \o M2 \o <<"-">> \o extra
           => ret.value.qualifier = M2

\* C7: parseVersion is the parse the claim describes on every input string,
\* and in particular parse("") = {0,0,0,""}, parse("3") = {3,0,0,""},
\* parse("3.0.0-RC1") = {3,0,0,"RC1"} and parse("3.0.0-M2-extra") has the
\* qualifier "M2".
C7_Theorem == C7_Parse /\ C7_Instances

\* a string with a token after its qualifier has been parsed
C7_Witness ==
    /\ Done
    /\ args[1] = Dotted(3, 0, 0) \o <<"-">> \o M2 \o <<"-">> \o extra
    /\ ret = Normal(Version(3, 0, 0, M2))

----------------------------------------------------------------------------
(* compareVersions on three versions *)

InitCompare ==
    /\ pc = "call"
    /\ args \in ParsedVersions \X ParsedVersions \X ParsedVersions
    /\ ret = Undefined
    /\ NoFlow

CallCompareVersions ==
    /\ pc = "call"
    /\ ret' = [ab |-> compareVersions(args[1], args[2]),
               ba |-> compareVersions(args[2], args[1]),
               bc |-> compareVersions(args[2], args[3]),
               ac |-> compareVersions(args[1], args[3]),
               aa |-> compareVersions(args[1], args[1])]
    /\ pc' = "done"
    /\ UNCHANGED <<args, metadata, answers, allDependencies, choices>>

NextCompare == CallCompareVersions

SpecCompare == InitCompare /\ [][NextCompare]_vars

Sign(n) == IF n < 0 THEN -1 ELSE IF n > 0 THEN 1 ELSE 0

\* C5: compare is a total, consistent ordering: compare(a, a) = 0; the sign of
\* compare(b, a) is the opposite of the sign of compare(a, b); compare(a, b) =
\* 0 and compare(b, c) = 0 imply compare(a, c) = 0; compare(a, b) < 0 and
\* compare(b, c) < 0 imply compare(a, c) < 0.
C5_TotalOrder ==
    Done =>
        /\ ret.aa = 0
        /\ Sign(ret.ba) = -Sign(ret.ab)
        /\ ret.ab = 0 /\ ret.bc = 0 => ret.ac = 0
        /\ ret.ab < 0 /\ ret.bc < 0 => ret.ac < 0

\* three versions in strictly ascending order, of three ranks, were compared
C5_Witness ==
    /\ Done
    /\ Triple(args[1]) = Triple(args[2]) /\ Triple(args[2]) = Triple(args[3])
    /\ args[1].qualifier = SNAPSHOT /\ args[2].qualifier = M2 /\ args[3].qualifier = RC1
    /\ ret.ab < 0 /\ ret.bc < 0 /\ ret.ac < 0

\* The rank of a qualifier as the claim lists it
ClaimRank(q) ==
    CASE q = <<>> \/ q = RELEASE -> 4
      [] q # <<>> /\ q # RELEASE /\ Len(q) >= 2 /\ q[1] = "R" /\ q[2] = "C" -> 3
      [] q # <<>> /\ q # RELEASE /\ q[1] = "M" -> 2
      [] OTHER -> IF \E i \in 1..Len(q) : \E j \in i..Len(q) : SubSeq(q, i, j) = SNAPSHOT
                  THEN 1 ELSE 0

\* the order of two characters: the digits before the letters, each in
\* their usual order, the lower case of a letter before its upper case
CharLess(c, d) ==
    \/ PrimaryWeight(c) < PrimaryWeight(d)
    \/ PrimaryWeight(c) = PrimaryWeight(d) /\ ~IsUpper(c) /\ IsUpper(d)

\* s comes before t in the dictionary
LexLess(s, t) ==
    \E i \in 1..(Len(t)) :
        /\ i <= Len(s) + 1
        /\ SubSeq(s, 1, i - 1) = SubSeq(t, 1, i - 1)
        /\ i = Len(s) + 1 \/ CharLess(s[i], t[i])

----------------------------------------------------------------------------
(* checkRange on two versions and on two expressions that differ in a bound *)

EquivVersions ==
    {<<>>, <<"3">>, Dotted(0, 0, 0), Dotted(3, 0, 0), Dotted(3, 0, 0) \o <<".">> \o RELEASE,
     Dotted(3, 0, 0) \o <<"-">> \o M1, Dotted(4, 0, 0)}

EquivBounds ==
    {<<>>, Dotted(0, 0, 0), Dotted(3, 0, 0), Dotted(3, 0, 0) \o <<".">> \o RELEASE,
     Dotted(3, 0, 0) \o <<"-">> \o M1, Dotted(4, 0, 0)}

\* an expression and the same expression with one bound replaced
RangePairs ==
    {<<Bracketed(open, lo, <<" ">>, hi, close), Bracketed(open, alt, <<" ">>, hi, close)>> :
        open \in {<<"[">>, <<"(">>}, close \in {<<"]">>, <<")">>},
        lo \in EquivBounds, hi \in EquivBounds, alt \in EquivBounds}
    \cup
    {<<Bracketed(open, lo, <<" ">>, hi, close), Bracketed(open, lo, <<" ">>, alt, close)>> :
        open \in {<<"[">>, <<"(">>}, close \in {<<"]">>, <<")">>},
        lo \in EquivBounds, hi \in EquivBounds, alt \in EquivBounds}
    \cup
    {<<lo, alt>> : lo \in EquivBounds, alt \in EquivBounds}

InitEquiv ==
    /\ pc = "call"
    /\ \E a \in EquivVersions, b \in EquivVersions, rr \in RangePairs :
        args = <<a, b, rr[1], rr[2]>>
    /\ ret = Undefined
    /\ NoFlow

CallCheckRangeTwice ==
    /\ pc = "call"
    /\ ret' = [ar |-> checkRange(args[1], args[3]),
               br |-> checkRange(args[2], args[3]),
               as |-> checkRange(args[1], args[4])]
    /\ pc' = "done"
    /\ UNCHANGED <<args, metadata, answers, allDependencies, choices>>

NextEquiv == CallCheckRangeTwice

SpecEquiv == InitEquiv /\ [][NextEquiv]_vars

\* two bounds that are both present and compare equal, or are the same
SameBound(x, y) == x = y \/ (x # <<>> /\ y # <<>> /\ Cmp(x, y) = 0)

\* s is r with a bound replaced by a bound that compares equal to it
EquivalentRanges(r, s) ==
    LET t == trim(r)
        u == trim(s)
    IN  \/ /\ IsInterval(r) /\ IsInterval(s)
           /\ t[1] = u[1] /\ t[Len(t)] = u[Len(u)]
           /\ SameBound(LowerSide(t), LowerSide(u))
           /\ SameBound(UpperSide(t), UpperSide(u))
        \/ IsBare(r) /\ IsBare(s) /\ SameBound(t, u)

\* C9: checkRange cannot tell apart what the comparator treats as equal: if
\* compare(parse(a), parse(b)) = 0 then checkRange(a, r) = checkRange(b, r)
\* for every r, and replacing a bound of r by a bound that compares equal to
\* it does not change checkRange(a, r).
C9_ComparatorEqual ==
    Done =>
        /\ Cmp(args[1], args[2]) = 0 => ret.ar = ret.br
        /\ EquivalentRanges(args[3], args[4]) => ret.ar = ret.as

\* 3.0.0 and 3.0.0.RELEASE have met one range, and 3.0.0 has met that range
\* with its bound 3.0.0 written 3.0.0.RELEASE
C9_Witness ==
    /\ Done
    /\ args[1] = Dotted(3, 0, 0)
    /\ args[2] = Dotted(3, 0, 0) \o <<".">> \o RELEASE
    /\ args[3] = Bracketed(<<"(">>, Dotted(3, 0, 0), <<" ">>, Dotted(4, 0, 0), <<")">>)
    /\ args[4] = Bracketed(<<"(">>, Dotted(3, 0, 0) \o <<".">> \o RELEASE, <<" ">>,
                           Dotted(4, 0, 0), <<")">>)
    /\ ret.ar = Normal(FALSE) /\ ret.br = Normal(FALSE) /\ ret.as = Normal(FALSE)

----------------------------------------------------------------------------
(* The interactive flow: init, promptUser, promptForDependencies,           *)
(* generateProject.  Of the metadata only bootVersion and dependencies are  *)
(* kept; the other questions do not reach the dependency list.              *)

MaxGroups == 2

BUILD_SNAPSHOT == <<".", "B", "U", "I", "L", "D", "-">> \o SNAPSHOT

DOT_RELEASE == <<".">> \o RELEASE

\* String.prototype.replace with a string pattern: the first occurrence
replace(s, p, w) ==
    IF includes(s, p)
    THEN LET i == CHOOSE k \in 1..(Len(s) - Len(p) + 1) :
                    /\ SubSeq(s, k, k + Len(p) - 1) = p
                    /\ \A j \in 1..(k - 1) : SubSeq(s, j, j + Len(p) - 1) # p
         IN  SubSeq(s, 1, i - 1) \o w \o SubSeq(s, i + Len(p), Len(s))
    ELSE s

\* lines 178-185: the identifier of a boot version as the question offers it
normalizeBootId(id) ==
    IF endsWith(id, BUILD_SNAPSHOT) THEN replace(id, BUILD_SNAPSHOT, <<"-">> \o SNAPSHOT)
    ELSE IF endsWith(id, DOT_RELEASE) THEN replace(id, DOT_RELEASE, <<>>)
    ELSE id

\* lines 123-132
RECURSIVE flattenGroups(_)
flattenGroups(groups) ==
    IF groups = <<>> THEN <<>>
    ELSE [i \in 1..Len(Head(groups).values) |->
            [name |-> Head(groups).values[i].name,
             value |-> Head(groups).values[i].id,
             versionRange |-> Head(groups).values[i].versionRange]]
         \o flattenGroups(Tail(groups))

flattenDependencies(meta, bootVersion) ==
    IF meta.dependencies.defined
    THEN flattenGroups(meta.dependencies.values)
    ELSE <<>>

\* Array.prototype.filter
RECURSIVE filterByName(_, _)
filterByName(deps, input) ==
    IF deps = <<>> THEN <<>>
    ELSE (IF includes(toLowerCase(Head(deps).name), toLowerCase(input))
          THEN <<Head(deps)>> ELSE <<>>)
         \o filterByName(Tail(deps), input)

\* lines 143-151: the source callback of the dependency prompt
source(deps, input) ==
    filterByName(deps, IF input \in Nullish \/ input = <<>> THEN <<>> ELSE input)

\* the metadata service's answers; dependencies.defined tells whether the
\* metadata has dependencies and dependencies.values
Dep(name, id, range) == [name |-> name, id |-> id, versionRange |-> range]

DepWeb == Dep(<<"W", "e", "b">>, <<"w", "e", "b">>, Undefined)

DepJpa ==
    Dep(<<"J", "p", "a">>, <<"j", "p", "a">>,
        Bracketed(<<"[">>, Dotted(3, 0, 0), <<>>, Dotted(4, 0, 0), <<")">>))

DepWs == Dep(<<"W", "s">>, <<"w", "s">>, Dotted(3, 1, 0))

GroupValues == {<<>>, <<DepWeb>>, <<DepJpa>>, <<DepWeb, DepWs>>}

Groups == {[name |-> <<"G">>, values |-> v] : v \in GroupValues}

RECURSIVE GroupLists(_)
GroupLists(n) ==
    IF n = 0 THEN {<<>>}
    ELSE GroupLists(n - 1) \cup {Append(l, g) : l \in GroupLists(n - 1), g \in Groups}

BootVersionLists ==
    {<<[id |-> Dotted(3, 0, 0) \o DOT_RELEASE, name |-> Dotted(3, 0, 0)],
       [id |-> Dotted(4, 0, 0) \o BUILD_SNAPSHOT, name |-> Dotted(4, 0, 0)]>>,
     <<[id |-> Dotted(3, 1, 0), name |-> Dotted(3, 1, 0)],
       [id |-> Dotted(4, 0, 0) \o <<"-">> \o M1, name |-> Dotted(4, 0, 0)],
       [id |-> Dotted(4, 0, 0), name |-> Dotted(4, 0, 0)]>>}

Metadatas ==
    {[bootVersion |-> [values |-> b], dependencies |-> d] :
        b \in BootVersionLists,
        d \in {[defined |-> FALSE, values |-> <<>>]}
              \cup {[defined |-> TRUE, values |-> l] : l \in GroupLists(MaxGroups)}}

SearchInputs == {Undefined, <<>>, <<"w">>, <<"J", "P">>, <<"x">>}

Init ==
    /\ pc = "fetch"
    /\ args = <<>>
    /\ ret = Undefined
    /\ metadata = Undefined
    /\ answers = Undefined
    /\ allDependencies = <<>>
    /\ choices = <<>>

\* lines 317-320, 17-20 and 159-241: the metadata arrives and promptUser asks
\* the basic questions; building the boot version question rewrites the
\* identifiers in the metadata
FetchMetadata ==
    /\ pc = "fetch"
    /\ \E m \in Metadatas :
        LET ids == [i \in 1..Len(m.bootVersion.values) |->
                       [id |-> normalizeBootId(m.bootVersion.values[i].id),
                        name |-> m.bootVersion.values[i].name]]
        IN  /\ metadata' = [m EXCEPT !.bootVersion.values = ids]
            /\ choices' = [i \in 1..Len(ids) |-> [name |-> ids[i].name, value |-> ids[i].id]]
    /\ pc' = "basic"
    /\ UNCHANGED <<args, ret, answers, allDependencies>>

\* lines 21-24: the request fails and the process exits
FetchMetadataFails ==
    /\ pc = "fetch"
    /\ pc' = "exit"
    /\ UNCHANGED <<args, ret, metadata, answers, allDependencies, choices>>

\* lines 241-243: the basic questions are answered, the dependencies are
\* flattened and the dependency prompt opens
AnswerBasicQuestions ==
    /\ pc = "basic"
    /\ \E i \in 1..Len(choices) :
        /\ answers' = [bootVersion |-> choices[i].value, dependencies |-> <<>>,
                       extractProject |-> Undefined]
        /\ allDependencies' = flattenDependencies(metadata, choices[i].value)
    /\ choices' = <<>>
    /\ pc' = "deps"
    /\ UNCHANGED <<args, ret, metadata>>

\* lines 143-151: the prompt asks for the dependencies to present
Source ==
    /\ pc = "deps"
    /\ \E input \in SearchInputs :
        /\ args' = <<input>>
        /\ choices' = source(allDependencies, input)
    /\ UNCHANGED <<pc, ret, metadata, answers, allDependencies>>

\* the subsequence of s at the indices in I
RECURSIVE pick(_, _, _)
pick(s, I, i) ==
    IF i > Len(s) THEN <<>>
    ELSE (IF i \in I THEN <<s[i].value>> ELSE <<>>) \o pick(s, I, i + 1)

\* lines 155 and 243-245: the user finishes the selection among the presented
SelectDependencies ==
    /\ pc = "deps"
    /\ \E I \in SUBSET (1..Len(choices)) :
        answers' = [answers EXCEPT !.dependencies = pick(choices, I, 1)]
    /\ pc' = "extract"
    /\ UNCHANGED <<args, ret, metadata, allDependencies, choices>>

\* lines 247-258
ConfirmExtract ==
    /\ pc = "extract"
    /\ \E b \in BOOLEAN : answers' = [answers EXCEPT !.extractProject = b]
    /\ pc' = "generate"
    /\ UNCHANGED <<args, ret, metadata, allDependencies, choices>>

\* lines 261-280: the parameters of the download request
GenerateProject ==
    /\ pc = "generate"
    /\ ret' = [bootVersion |-> answers.bootVersion,
               dependencies |-> IF Len(answers.dependencies) > 0
                                THEN answers.dependencies ELSE Undefined]
    /\ pc' = "done"
    /\ UNCHANGED <<args, metadata, answers, allDependencies, choices>>

Next ==
    \/ FetchMetadata
    \/ FetchMetadataFails
    \/ AnswerBasicQuestions
    \/ Source
    \/ SelectDependencies
    \/ ConfirmExtract
    \/ GenerateProject

Spec == Init /\ [][Next]_vars

\* C1: after the user has picked the boot version, the dependencies presented
\* for selection are only candidates whose version range the boot version
\* satisfies: none with checkRange(bootVersion, versionRange) not true.
C1_OnlyCompatibleOffered ==
    pc = "deps" =>
        \A i \in 1..Len(choices) :
            checkRange(answers.bootVersion, choices[i].versionRange) = Normal(TRUE)

====
